---- MODULE Spec2Model ----
(***************************************************************************)
(* The editing session of src/components/editor/ImageEditor.tsx: the       *)
(* linear undo/redo history, the live adjustments, the canvas pointer      *)
(* handlers and the two asynchronous operations (crop, background          *)
(* removal).                                                               *)
(*                                                                         *)
(* A raster is a natural number naming a pixel content; an operation that  *)
(* produces new pixels takes the next unused number.  React state is       *)
(* modelled by one variable per useState cell.  An event handler runs to   *)
(* completion on the state of the latest render; an async handler keeps    *)
(* the state of the render in which it was started (its closure) across    *)
(* its awaits.  Buttons and sliders are reachable by keyboard while the     *)
(* pointer is held or the progress overlay is shown, so the gates on such  *)
(* an event are the ones the component states: the `disabled` attributes   *)
(* and the mode that mounts the control.  Pointer events on the canvas     *)
(* need the canvas to be visible and not covered by the overlay.           *)
(*                                                                         *)
(* The pure functions of the program (crop transform, filter descriptors)  *)
(* are checked under FnSpec, which draws one call from bounded input sets  *)
(* and applies the function to it; the operators that work on the pixels   *)
(* of a canvas (spot fix, red-eye removal, chroma key) likewise under      *)
(* RetouchSpec.  The Editor component of                                   *)
(* src/utils/imageProcessing.ts, which App.tsx does not mount, is a        *)
(* state machine of its own, EditorSpec.  Each specification leaves the    *)
(* variables of the others untouched.                                      *)
(***************************************************************************)
EXTENDS Integers, Sequences, FiniteSets, TLC

VARIABLES
    imageSrc,            \* useState imageSrc: the current base raster
    mode,                \* useState mode
    filters,             \* useState filters: the live adjustments
    lastAppliedFilters,  \* useState lastAppliedFilters
    history,             \* useState history: sequence of {src, filters}
    historyIndex,        \* useState historyIndex (0-based, as in the code)
    isDrawing,           \* useState isDrawing
    lastPos,             \* useRef lastPos: "null" or "pos"
    crop,                \* useState crop: "undefined" or "rect"
    completedCrop,       \* useState completedCrop: "undefined" or "rect"
    rotation,            \* useState rotation (degrees)
    flip,                \* useState flip
    isRemovingBg,        \* useState isRemovingBg
    canvas,              \* pixels of the <canvas> element (Blank: unmounted)
    bgReqs,              \* handleRemoveBg calls suspended at an await
    cropReqs,            \* performCrop calls suspended at the await
    bgAlert,             \* the last background removal ended in the alert() dialog
    nextRaster,          \* next unused raster name
    events,              \* number of user events handled so far
    compressSettings,    \* useState compressSettings: {format, quality}
    compressTimer,       \* the 100 ms debounce timer of the compression effect is pending
    compressedPreview,   \* useState compressedPreview: the blob, or NoPreview
    download,            \* the file the last download link delivered
    call,                \* FnSpec: the function called and its arguments
    result,              \* FnSpec: what the call returned
    editor               \* EditorSpec: state of the Editor component

exportVars == <<compressSettings, compressTimer, compressedPreview, download>>

sessionVars == <<imageSrc, mode, filters, lastAppliedFilters, history,
                 historyIndex, isDrawing, lastPos, crop, completedCrop,
                 rotation, flip, isRemovingBg, canvas, bgReqs, cropReqs,
                 bgAlert, nextRaster, events, exportVars>>

fnVars == <<call, result>>

vars == <<sessionVars, fnVars, editor>>

---------------------------------------------------------------------------
(* Bounds of the model *)

\* The sessions explored: every interleaving of at most MaxEvents user events
\* (clicks, slider changes, pointer events) with the completions of the
\* asynchronous operations they start.
MaxEvents == 8

---------------------------------------------------------------------------
(* Values *)

InitialImage == 0
Blank == -1
NoBlob == -2

\* values of the variables of a specification that is not the one running
NoCall == [kind |-> "none"]
NoResult == [status |-> "none"]
NotMounted == [activeTab |-> "unmounted"]

Modes == {"null", "crop", "adjust", "filter", "draw", "repair", "remove-bg", "compress"}

DEFAULT_FILTERS ==
    [brightness |-> 100, contrast |-> 100, saturation |-> 100, sepia |-> 0,
     grayscale |-> 0, blur |-> 0, hueRotate |-> 0]

\* { ...a, ...b }
Spread(a, b) ==
    [k \in DOMAIN a \cup DOMAIN b |-> IF k \in DOMAIN b THEN b[k] ELSE a[k]]

\* the presets of INSTAGRAM_FILTERS that the model selects, by name
PresetNames == {"Normal", "Clarendon"}

\* f.filter of the preset named n; the empty record is the empty function
INSTAGRAM_FILTERS(n) ==
    CASE n = "Normal" -> [k \in {} |-> 0]
      [] n = "Clarendon" -> [contrast |-> 120, saturate |-> 125, brightness |-> 110]

\* the slider changes tried: <<field, value>>
SliderInputs == { <<"brightness", 120>>, <<"brightness", 100>> }

NoFlip == [horizontal |-> FALSE, vertical |-> FALSE]

\* history[i] with the code's 0-based index
At(h, i) == h[i + 1]

\* history.slice(0, i + 1)
Slice(h, i) == SubSeq(h, 1, i + 1)

hasChanges == filters # lastAppliedFilters

\* getFilterString(currentFilters): the CSS filter list, one function per
\* element: <<name, argument, unit>>
getFilterString(currentFilters) ==
    << <<"brightness", currentFilters.brightness, "%">>,
       <<"contrast", currentFilters.contrast, "%">>,
       <<"saturate", currentFilters.saturation, "%">>,
       <<"sepia", currentFilters.sepia, "%">>,
       <<"grayscale", currentFilters.grayscale, "%">>,
       <<"blur", currentFilters.blur, "px">>,
       <<"hue-rotate", currentFilters.hueRotate, "deg">> >>

\* no file downloaded yet
NoDownload == [src |-> NoBlob, filter |-> << >>]

\* compressedPreview before the first encoding (null)
NoPreview == [pixels |-> NoBlob, format |-> "null", quality |-> 0]

\* the formats of the compress panel, and the qualities (in percent) the
\* slider is moved to here
CompressFormats == {"image/jpeg", "image/png", "image/webp"}

CompressQualities == {50, 80}

\* canvas.toBlob(callback, format, quality): the encoding of the pixels; PNG
\* is lossless and takes no quality
toBlob(pixels, format, quality) ==
    [pixels |-> pixels, format |-> format,
     quality |-> IF format = "image/png" THEN 100 ELSE quality]

\* format.split('/')[1], with jpeg written jpg
Extension(format) ==
    CASE format = "image/jpeg" -> "jpg"
      [] format = "image/png" -> "png"
      [] format = "image/webp" -> "webp"

---------------------------------------------------------------------------
SessionInit ==
    /\ imageSrc = InitialImage
    /\ mode = "null"
    /\ filters = DEFAULT_FILTERS
    /\ lastAppliedFilters = DEFAULT_FILTERS
    /\ history = << [src |-> InitialImage, filters |-> DEFAULT_FILTERS] >>
    /\ historyIndex = 0
    /\ isDrawing = FALSE
    /\ lastPos = "null"
    /\ crop = "undefined"
    /\ completedCrop = "undefined"
    /\ rotation = 0
    /\ flip = NoFlip
    /\ isRemovingBg = FALSE
    /\ canvas = InitialImage
    /\ bgReqs = << >>
    /\ cropReqs = << >>
    /\ bgAlert = FALSE
    /\ nextRaster = 1
    /\ events = 0
    /\ compressSettings = [format |-> "image/jpeg", quality |-> 80]
    /\ compressTimer = FALSE
    /\ compressedPreview = NoPreview
    /\ download = NoDownload

Init ==
    /\ SessionInit
    /\ call = NoCall
    /\ result = NoResult
    /\ editor = NotMounted

---------------------------------------------------------------------------
(* Helpers shared by the handlers *)

\* one more user event
UserEvent == events < MaxEvents /\ events' = events + 1

\* The canvas is rendered in every mode but crop, and hidden in compress.
canvasMounted == mode # "crop"
canvasVisible == mode \notin {"crop", "compress"}

\* The overlay shown while isRemovingBg covers the viewport above the canvas:
\* no pointer event reaches the canvas under it.
pointerReachesCanvas == canvasVisible /\ ~isRemovingBg

\* useEffect([imageSrc, mode]) with its img.onload: when imageSrc or mode
\* changed and the canvas is mounted, the canvas is redrawn from imageSrc
\* (the decode of the data URL is taken to finish before the next event).
\* Entering crop unmounts the canvas; leaving crop mounts a new one.
CanvasEffect(changed, newSrc, newMode) ==
    IF newMode = "crop"
    THEN canvas' = Blank
    ELSE IF changed \/ mode = "crop"
    THEN canvas' = newSrc
    ELSE canvas' = canvas

\* useEffect([mode, compressSettings, filters, rotation, flip, crop]) of the
\* compression preview: when a dependency changed, the cleanup clears the
\* pending timer and, in compress mode, a new 100 ms timer is started.  (A
\* timer is pending only in compress mode, where of the dependencies only
\* mode, compressSettings and filters can change; filters are compared by
\* value.)
CompressionEffect(changed, newMode) ==
    compressTimer' = IF changed THEN newMode = "compress" ELSE compressTimer

\* addToHistory with setHistoryIndex(newHistory.length)
addToHistory_IndexOffByOne(h, i, newSrc, newFilters) ==
    /\ history' = Append(Slice(h, i), [src |-> newSrc, filters |-> newFilters])
    /\ historyIndex' = Len(history')
    /\ imageSrc' = newSrc
    /\ filters' = newFilters

\* addToHistory without its setImageSrc(newSrc)
addToHistory_KeepsImageSrc(h, i, newSrc, newFilters) ==
    /\ history' = Append(Slice(h, i), [src |-> newSrc, filters |-> newFilters])
    /\ historyIndex' = Len(history') - 1
    /\ imageSrc' = imageSrc
    /\ filters' = newFilters

\* addToHistory pushing onto history itself, without the slice
addToHistory_NoTruncate(h, i, newSrc, newFilters) ==
    /\ history' = Append(h, [src |-> newSrc, filters |-> newFilters])
    /\ historyIndex' = Len(history') - 1
    /\ imageSrc' = newSrc
    /\ filters' = newFilters

\* addToHistory(newSrc, newFilters), run in a closure whose history and
\* historyIndex are h and i.
addToHistory(h, i, newSrc, newFilters) ==
    /\ history' = Append(Slice(h, i), [src |-> newSrc, filters |-> newFilters])
    /\ historyIndex' = Len(history') - 1
    /\ imageSrc' = newSrc
    /\ filters' = newFilters

---------------------------------------------------------------------------
(* Toolbar *)

\* the ToolButtons, and the X button of the panel header (setMode(null))
setMode(m) ==
    /\ m \in Modes
    /\ m = "null" => mode # "null"
    /\ UserEvent
    /\ mode' = m
    /\ CanvasEffect(m # mode, imageSrc, m)
    /\ CompressionEffect(m # mode, m)
    /\ UNCHANGED <<fnVars, editor, compressSettings, compressedPreview, download,
                   imageSrc, filters, lastAppliedFilters, history,
                   historyIndex, isDrawing, lastPos, crop, completedCrop,
                   rotation, flip, isRemovingBg, bgReqs, cropReqs, bgAlert,
                   nextRaster>>

---------------------------------------------------------------------------
(* Undo / redo *)

\* handleUndo moving the index and the raster only (as Editor.handleUndo of
\* utils/imageProcessing.ts does)
handleUndo_KeepsFilters ==
    IF historyIndex > 0
    THEN /\ UserEvent
         /\ historyIndex' = historyIndex - 1
         /\ imageSrc' = At(history, historyIndex - 1).src
         /\ CanvasEffect(imageSrc' # imageSrc, imageSrc', mode)
         /\ CompressionEffect(FALSE, mode)
         /\ UNCHANGED <<fnVars, editor, compressSettings, compressedPreview, download,
                        mode, filters, lastAppliedFilters, history, isDrawing,
                        lastPos, crop, completedCrop, rotation, flip,
                        isRemovingBg, bgReqs, cropReqs, bgAlert, nextRaster>>
    ELSE UNCHANGED vars

\* handleUndo dropping the entries after the one it makes current
handleUndo_DropsRedoEntries ==
    IF historyIndex > 0
    THEN /\ UserEvent
         /\ historyIndex' = historyIndex - 1
         /\ history' = Slice(history, historyIndex - 1)
         /\ imageSrc' = At(history, historyIndex - 1).src
         /\ filters' = At(history, historyIndex - 1).filters
         /\ lastAppliedFilters' = At(history, historyIndex - 1).filters
         /\ CanvasEffect(imageSrc' # imageSrc, imageSrc', mode)
         /\ CompressionEffect(filters' # filters, mode)
         /\ UNCHANGED <<fnVars, editor, compressSettings, compressedPreview, download,
                        mode, isDrawing, lastPos, crop, completedCrop,
                        rotation, flip, isRemovingBg, bgReqs, cropReqs, bgAlert,
                        nextRaster>>
    ELSE UNCHANGED vars

handleUndo ==
    IF historyIndex > 0
    THEN /\ UserEvent
         /\ historyIndex' = historyIndex - 1
         /\ imageSrc' = At(history, historyIndex - 1).src
         /\ filters' = At(history, historyIndex - 1).filters
         /\ lastAppliedFilters' = At(history, historyIndex - 1).filters
         /\ CanvasEffect(imageSrc' # imageSrc, imageSrc', mode)
         /\ CompressionEffect(filters' # filters, mode)
         /\ UNCHANGED <<fnVars, editor, compressSettings, compressedPreview, download,
                        mode, history, isDrawing, lastPos, crop, completedCrop,
                        rotation, flip, isRemovingBg, bgReqs, cropReqs, bgAlert,
                        nextRaster>>
    ELSE UNCHANGED vars

\* handleRedo without setImageSrc
handleRedo_KeepsImage ==
    IF historyIndex < Len(history) - 1
    THEN /\ UserEvent
         /\ historyIndex' = historyIndex + 1
         /\ filters' = At(history, historyIndex + 1).filters
         /\ lastAppliedFilters' = At(history, historyIndex + 1).filters
         /\ CompressionEffect(filters' # filters, mode)
         /\ UNCHANGED <<fnVars, editor, compressSettings, compressedPreview, download,
                        imageSrc, canvas, mode, history, isDrawing, lastPos, crop,
                        completedCrop, rotation, flip, isRemovingBg, bgReqs,
                        cropReqs, bgAlert, nextRaster>>
    ELSE UNCHANGED vars

handleRedo ==
    IF historyIndex < Len(history) - 1
    THEN /\ UserEvent
         /\ historyIndex' = historyIndex + 1
         /\ imageSrc' = At(history, historyIndex + 1).src
         /\ filters' = At(history, historyIndex + 1).filters
         /\ lastAppliedFilters' = At(history, historyIndex + 1).filters
         /\ CanvasEffect(imageSrc' # imageSrc, imageSrc', mode)
         /\ CompressionEffect(filters' # filters, mode)
         /\ UNCHANGED <<fnVars, editor, compressSettings, compressedPreview, download,
                        mode, history, isDrawing, lastPos, crop, completedCrop,
                        rotation, flip, isRemovingBg, bgReqs, cropReqs, bgAlert,
                        nextRaster>>
    ELSE UNCHANGED vars

---------------------------------------------------------------------------
(* Canvas pointer handlers: onMouseDown/onTouchStart, onMouseMove/onTouchMove,
   onMouseUp/onMouseLeave/onTouchEnd *)

startInteraction ==
    /\ pointerReachesCanvas
    /\ IF mode \in {"null", "crop", "adjust", "filter"}
       THEN UNCHANGED vars
       ELSE /\ UserEvent
            /\ isDrawing' = TRUE
            /\ lastPos' = "pos"
            /\ IF mode = "repair"
               THEN canvas' = nextRaster /\ nextRaster' = nextRaster + 1
               ELSE UNCHANGED <<canvas, nextRaster>>
            /\ UNCHANGED <<fnVars, editor, compressSettings, exportVars,
                           imageSrc, mode, filters, lastAppliedFilters, history,
                           historyIndex, crop, completedCrop, rotation, flip,
                           isRemovingBg, bgReqs, cropReqs, bgAlert>>

\* a moveInteraction whose canvas shares its pixels with the current entry
moveInteraction_DrawsOnEntry ==
    /\ pointerReachesCanvas
    /\ IF ~isDrawing \/ lastPos = "null" \/ ~canvasMounted \/ mode # "draw"
       THEN UNCHANGED vars
       ELSE /\ UserEvent
            /\ canvas' = nextRaster
            /\ nextRaster' = nextRaster + 1
            /\ lastPos' = "pos"
            /\ history' = [history EXCEPT ![historyIndex + 1].src = nextRaster]
            /\ UNCHANGED <<fnVars, editor, compressSettings, exportVars,
                           imageSrc, mode, filters, lastAppliedFilters,
                           historyIndex, isDrawing, crop, completedCrop,
                           rotation, flip, isRemovingBg, bgReqs, cropReqs,
                           bgAlert>>

moveInteraction ==
    /\ pointerReachesCanvas
    /\ IF ~isDrawing \/ lastPos = "null" \/ ~canvasMounted \/ mode # "draw"
       THEN UNCHANGED vars
       ELSE /\ UserEvent
            /\ canvas' = nextRaster
            /\ nextRaster' = nextRaster + 1
            /\ lastPos' = "pos"
            /\ UNCHANGED <<fnVars, editor, compressSettings, exportVars,
                           imageSrc, mode, filters, lastAppliedFilters, history,
                           historyIndex, isDrawing, crop, completedCrop,
                           rotation, flip, isRemovingBg, bgReqs, cropReqs,
                           bgAlert>>

\* endInteraction committing imageSrc in place of canvas.toDataURL()
endInteraction_CommitsImageSrc ==
    /\ pointerReachesCanvas
    /\ IF isDrawing
       THEN /\ UserEvent
            /\ addToHistory(history, historyIndex, imageSrc, filters)
            /\ CanvasEffect(TRUE, imageSrc, mode)
            /\ isDrawing' = FALSE
            /\ lastPos' = "null"
            /\ UNCHANGED <<fnVars, editor, compressSettings, exportVars,
                           mode, lastAppliedFilters, crop, completedCrop,
                           rotation, flip, isRemovingBg, bgReqs, cropReqs,
                           bgAlert, nextRaster>>
       ELSE UNCHANGED vars

endInteraction ==
    /\ pointerReachesCanvas
    /\ IF isDrawing
       THEN /\ UserEvent
            /\ addToHistory(history, historyIndex, canvas, filters)
            /\ CanvasEffect(TRUE, canvas, mode)
            /\ isDrawing' = FALSE
            /\ lastPos' = "null"
            /\ UNCHANGED <<fnVars, editor, compressSettings, exportVars,
                           mode, lastAppliedFilters, crop, completedCrop,
                           rotation, flip, isRemovingBg, bgReqs, cropReqs,
                           bgAlert, nextRaster>>
       ELSE UNCHANGED vars

---------------------------------------------------------------------------
(* Adjust and Filter panels *)

\* a slider whose onChange also commits the new adjustments
setFilters_AutoCommit(field, v) ==
    /\ mode = "adjust"
    /\ UserEvent
    /\ addToHistory(history, historyIndex, imageSrc,
                    Spread(filters, [k \in {field} |-> v]))
    /\ UNCHANGED <<fnVars, editor, compressSettings, exportVars,
                   mode, lastAppliedFilters, isDrawing, lastPos, crop,
                   completedCrop, rotation, flip, isRemovingBg, canvas, bgReqs,
                   cropReqs, bgAlert, nextRaster>>

\* FilterSlider onChange: setFilters({...filters, [field]: v})
setFilters(field, v) ==
    /\ mode = "adjust"
    /\ UserEvent
    /\ filters' = Spread(filters, [k \in {field} |-> v])
    /\ UNCHANGED <<fnVars, editor, compressSettings, exportVars,
                   imageSrc, mode, lastAppliedFilters, history, historyIndex,
                   isDrawing, lastPos, crop, completedCrop, rotation, flip,
                   isRemovingBg, canvas, bgReqs, cropReqs, bgAlert, nextRaster>>

\* a preset merged onto the live adjustments (as the unused applyPreset does)
selectPreset_MergesOntoLive(n) ==
    /\ mode = "filter"
    /\ UserEvent
    /\ filters' = Spread(filters, INSTAGRAM_FILTERS(n))
    /\ UNCHANGED <<fnVars, editor, compressSettings, exportVars,
                   imageSrc, mode, lastAppliedFilters, history, historyIndex,
                   isDrawing, lastPos, crop, completedCrop, rotation, flip,
                   isRemovingBg, canvas, bgReqs, cropReqs, bgAlert, nextRaster>>

\* FilterPreview onClick: setFilters({ ...lastAppliedFilters, ...f.filter })
selectPreset(n) ==
    /\ mode = "filter"
    /\ UserEvent
    /\ filters' = Spread(lastAppliedFilters, INSTAGRAM_FILTERS(n))
    /\ UNCHANGED <<fnVars, editor, compressSettings, exportVars,
                   imageSrc, mode, lastAppliedFilters, history, historyIndex,
                   isDrawing, lastPos, crop, completedCrop, rotation, flip,
                   isRemovingBg, canvas, bgReqs, cropReqs, bgAlert, nextRaster>>

\* the Apply button: shown in adjust and filter, disabled without changes
applyFilters ==
    /\ mode \in {"adjust", "filter"}
    /\ hasChanges
    /\ UserEvent
    /\ lastAppliedFilters' = filters
    /\ addToHistory(history, historyIndex, imageSrc, filters)
    /\ UNCHANGED <<fnVars, editor, compressSettings, exportVars,
                   mode, isDrawing, lastPos, crop, completedCrop, rotation, flip,
                   isRemovingBg, canvas, bgReqs, cropReqs, bgAlert, nextRaster>>

---------------------------------------------------------------------------
(* Crop panel *)

\* ReactCrop onChange / onComplete at the end of a drag
onCropComplete ==
    /\ mode = "crop"
    /\ UserEvent
    /\ crop' = "rect"
    /\ completedCrop' = "rect"
    /\ UNCHANGED <<fnVars, editor, compressSettings, exportVars,
                   imageSrc, mode, filters, lastAppliedFilters, history,
                   historyIndex, isDrawing, lastPos, rotation, flip,
                   isRemovingBg, canvas, bgReqs, cropReqs, bgAlert, nextRaster>>

\* the -90 and +90 buttons: setRotation(r => r + d)
setRotation(d) ==
    /\ mode = "crop"
    /\ d \in {-90, 90}
    /\ UserEvent
    /\ rotation' = rotation + d
    /\ UNCHANGED <<fnVars, editor, compressSettings, exportVars,
                   imageSrc, mode, filters, lastAppliedFilters, history,
                   historyIndex, isDrawing, lastPos, crop, completedCrop, flip,
                   isRemovingBg, canvas, bgReqs, cropReqs, bgAlert, nextRaster>>

\* the Flip H and Flip V buttons
setFlip(axis) ==
    /\ mode = "crop"
    /\ axis \in {"horizontal", "vertical"}
    /\ UserEvent
    /\ flip' = [flip EXCEPT ![axis] = ~flip[axis]]
    /\ UNCHANGED <<fnVars, editor, compressSettings, exportVars,
                   imageSrc, mode, filters, lastAppliedFilters, history,
                   historyIndex, isDrawing, lastPos, crop, completedCrop,
                   rotation, isRemovingBg, canvas, bgReqs, cropReqs, bgAlert,
                   nextRaster>>

\* Apply Crop, up to the await of getCroppedImg: the closure is kept
performCrop ==
    /\ mode = "crop"
    /\ UserEvent
    /\ cropReqs' = Append(cropReqs,
                          [history |-> history, historyIndex |-> historyIndex,
                           filters |-> filters, imageSrc |-> imageSrc,
                           rotation |-> rotation, flip |-> flip,
                           finalCrop |-> completedCrop])
    /\ UNCHANGED <<fnVars, editor, compressSettings, exportVars,
                   imageSrc, mode, filters, lastAppliedFilters, history,
                   historyIndex, isDrawing, lastPos, crop, completedCrop,
                   rotation, flip, isRemovingBg, canvas, bgReqs, bgAlert,
                   nextRaster>>

\* q without its i-th element
Without(q, i) == SubSeq(q, 1, i - 1) \o SubSeq(q, i + 1, Len(q))

\* getCroppedImg with no crop rectangle, no rotation and no flip redraws the
\* image as it is; anything else gives new pixels.
CropIsIdentity(req) ==
    /\ req.finalCrop = "undefined"
    /\ req.rotation % 360 = 0
    /\ req.flip = NoFlip

\* a successful crop that leaves rotation and flip as they are
CropResolve_KeepsRotation(i) ==
    /\ i \in DOMAIN cropReqs
    /\ LET req == cropReqs[i]
           cropped == IF CropIsIdentity(req) THEN req.imageSrc ELSE nextRaster
       IN /\ nextRaster' = IF CropIsIdentity(req) THEN nextRaster ELSE nextRaster + 1
          /\ addToHistory(req.history, req.historyIndex, cropped, req.filters)
          /\ CanvasEffect(TRUE, cropped, "null")
          /\ CompressionEffect(mode # "null", "null")
    /\ crop' = "undefined"
    /\ completedCrop' = "undefined"
    /\ mode' = "null"
    /\ cropReqs' = Without(cropReqs, i)
    /\ UNCHANGED <<fnVars, editor, compressSettings, compressedPreview, download,
                   lastAppliedFilters, isDrawing, lastPos, isRemovingBg, bgReqs,
                   bgAlert, events, rotation, flip>>

\* performCrop after the await, getCroppedImg having returned a data URL
CropResolve(i) ==
    /\ i \in DOMAIN cropReqs
    /\ LET req == cropReqs[i]
           cropped == IF CropIsIdentity(req) THEN req.imageSrc ELSE nextRaster
       IN /\ nextRaster' = IF CropIsIdentity(req) THEN nextRaster ELSE nextRaster + 1
          /\ addToHistory(req.history, req.historyIndex, cropped, req.filters)
          /\ CanvasEffect(TRUE, cropped, "null")
          /\ CompressionEffect(mode # "null", "null")
    /\ rotation' = 0
    /\ flip' = NoFlip
    /\ crop' = "undefined"
    /\ completedCrop' = "undefined"
    /\ mode' = "null"
    /\ cropReqs' = Without(cropReqs, i)
    /\ UNCHANGED <<fnVars, editor, compressSettings, compressedPreview, download,
                   lastAppliedFilters, isDrawing, lastPos, isRemovingBg, bgReqs,
                   bgAlert, events>>

\* a failed crop that still runs the resets of the success branch
CropFail_StillResets(i) ==
    /\ i \in DOMAIN cropReqs
    /\ cropReqs' = Without(cropReqs, i)
    /\ rotation' = 0
    /\ flip' = NoFlip
    /\ crop' = "undefined"
    /\ completedCrop' = "undefined"
    /\ UNCHANGED <<fnVars, editor, compressSettings, exportVars,
                   imageSrc, mode, filters, lastAppliedFilters, history,
                   historyIndex, isDrawing, lastPos, isRemovingBg, canvas,
                   bgReqs, bgAlert, nextRaster, events>>

\* performCrop after the await, getCroppedImg having returned null (no 2d
\* context) or thrown (image load error, getImageData error)
CropFail(i) ==
    /\ i \in DOMAIN cropReqs
    /\ cropReqs' = Without(cropReqs, i)
    /\ UNCHANGED <<fnVars, editor, compressSettings, exportVars,
                   imageSrc, mode, filters, lastAppliedFilters, history,
                   historyIndex, isDrawing, lastPos, crop, completedCrop,
                   rotation, flip, isRemovingBg, canvas, bgReqs, bgAlert,
                   nextRaster, events>>

---------------------------------------------------------------------------
(* Background removal *)

\* Remove Background (disabled while isRemovingBg), up to the await of the
\* 100 ms timer
handleRemoveBg ==
    /\ mode = "remove-bg"
    /\ ~isRemovingBg
    /\ UserEvent
    /\ isRemovingBg' = TRUE
    /\ bgAlert' = FALSE
    /\ bgReqs' = Append(bgReqs,
                        [stage |-> "timer", history |-> history,
                         historyIndex |-> historyIndex, filters |-> filters,
                         imageSrc |-> imageSrc])
    /\ UNCHANGED <<fnVars, editor, compressSettings, exportVars,
                   imageSrc, mode, filters, lastAppliedFilters, history,
                   historyIndex, isDrawing, lastPos, crop, completedCrop,
                   rotation, flip, canvas, cropReqs, nextRaster>>

\* the timer fires: removeImageBackground(imageSrc) is called and awaited
BgTimerFires ==
    /\ Len(bgReqs) = 1
    /\ bgReqs[1].stage = "timer"
    /\ bgReqs' = << [bgReqs[1] EXCEPT !.stage = "inference"] >>
    /\ UNCHANGED <<fnVars, editor, compressSettings, exportVars,
                   imageSrc, mode, filters, lastAppliedFilters, history,
                   historyIndex, isDrawing, lastPos, crop, completedCrop,
                   rotation, flip, isRemovingBg, canvas, cropReqs, bgAlert,
                   nextRaster, events>>

\* removeImageBackground resolves: the rest of the try block, then finally
BgResolve ==
    /\ Len(bgReqs) = 1
    /\ bgReqs[1].stage = "inference"
    /\ addToHistory(bgReqs[1].history, bgReqs[1].historyIndex, nextRaster,
                    bgReqs[1].filters)
    /\ nextRaster' = nextRaster + 1
    /\ mode' = "null"
    /\ CanvasEffect(TRUE, nextRaster, "null")
    /\ CompressionEffect(mode # "null", "null")
    /\ isRemovingBg' = FALSE
    /\ bgReqs' = << >>
    /\ UNCHANGED <<fnVars, editor, compressSettings, compressedPreview, download,
                   lastAppliedFilters, isDrawing, lastPos, crop, completedCrop,
                   rotation, flip, cropReqs, bgAlert, events>>

\* a catch block without the alert
BgReject_Silent ==
    /\ Len(bgReqs) = 1
    /\ bgReqs[1].stage = "inference"
    /\ isRemovingBg' = FALSE
    /\ bgReqs' = << >>
    /\ UNCHANGED <<fnVars, editor, compressSettings, exportVars,
                   imageSrc, mode, filters, lastAppliedFilters, history,
                   historyIndex, isDrawing, lastPos, crop, completedCrop,
                   rotation, flip, canvas, cropReqs, bgAlert, nextRaster,
                   events>>

\* removeImageBackground rejects: catch (console.error, alert), then finally
BgReject ==
    /\ Len(bgReqs) = 1
    /\ bgReqs[1].stage = "inference"
    /\ bgAlert' = TRUE
    /\ isRemovingBg' = FALSE
    /\ bgReqs' = << >>
    /\ UNCHANGED <<fnVars, editor, compressSettings, exportVars,
                   imageSrc, mode, filters, lastAppliedFilters, history,
                   historyIndex, isDrawing, lastPos, crop, completedCrop,
                   rotation, flip, canvas, cropReqs, nextRaster, events>>

---------------------------------------------------------------------------
(* Export *)

\* the debounce timer of the compression effect fires: updateCompression
\* encodes the pixels of the canvas element (canvas.toBlob) and stores the
\* blob URLs; the toBlob callbacks are taken to run before the next event
CompressionTimerFires ==
    /\ compressTimer
    /\ compressTimer' = FALSE
    /\ compressedPreview' =
           toBlob(canvas, compressSettings.format, compressSettings.quality)
    /\ UNCHANGED <<fnVars, editor, compressSettings, download, imageSrc, mode, filters,
                   lastAppliedFilters, history, historyIndex, isDrawing,
                   lastPos, crop, completedCrop, rotation, flip, isRemovingBg,
                   canvas, bgReqs, cropReqs, bgAlert, nextRaster, events>>

\* The format buttons and the quality slider of the compress panel:
\* setCompressSettings(s => ({...s, ...})) makes a new object, so the
\* compression effect runs again
setCompressSettings(field, value) ==
    /\ mode = "compress"
    /\ UserEvent
    /\ compressSettings' = [compressSettings EXCEPT ![field] = value]
    /\ CompressionEffect(TRUE, mode)
    /\ UNCHANGED <<fnVars, editor, compressedPreview, download, imageSrc,
                   mode, filters, lastAppliedFilters, history, historyIndex,
                   isDrawing, lastPos, crop, completedCrop, rotation, flip,
                   isRemovingBg, canvas, bgReqs, cropReqs, bgAlert,
                   nextRaster>>

\* Download in the compress panel: the link delivers the blob of
\* compressedPreview as it is, under a name made from the format selected
\* now
handleDownloadCompressed ==
    /\ mode = "compress"
    /\ IF compressedPreview = NoPreview
       THEN UNCHANGED vars
       ELSE /\ UserEvent
            /\ download' = [src |-> compressedPreview.pixels, filter |-> << >>,
                            format |-> compressedPreview.format,
                            quality |-> compressedPreview.quality,
                            ext |-> Extension(compressSettings.format)]
            /\ UNCHANGED <<fnVars, editor, compressSettings, compressTimer, compressedPreview,
                           imageSrc, mode, filters, lastAppliedFilters,
                           history, historyIndex, isDrawing, lastPos, crop,
                           completedCrop, rotation, flip, isRemovingBg,
                           canvas, bgReqs, cropReqs, bgAlert, nextRaster>>

\* Save (disabled at historyIndex 0) opens the modal dialog, whose Download
\* button runs performDownload: imageSrc is drawn on a new canvas with
\* ctx.filter = getFilterString(filters) and encoded
performDownload ==
    /\ historyIndex # 0
    /\ UserEvent
    /\ download' = [src |-> imageSrc, filter |-> getFilterString(filters)]
    /\ UNCHANGED <<fnVars, editor, compressSettings, compressTimer, compressedPreview,
                   imageSrc, mode, filters, lastAppliedFilters, history,
                   historyIndex, isDrawing, lastPos, crop, completedCrop,
                   rotation, flip, isRemovingBg, canvas, bgReqs, cropReqs,
                   bgAlert, nextRaster>>

---------------------------------------------------------------------------
Next ==
    \/ \E m \in Modes : setMode(m)
    \/ handleUndo
    \/ handleRedo
    \/ startInteraction
    \/ moveInteraction
    \/ endInteraction
    \/ \E in \in SliderInputs : setFilters(in[1], in[2])
    \/ \E n \in PresetNames : selectPreset(n)
    \/ applyFilters
    \/ onCropComplete
    \/ \E d \in {-90, 90} : setRotation(d)
    \/ \E axis \in {"horizontal", "vertical"} : setFlip(axis)
    \/ performCrop
    \/ \E i \in DOMAIN cropReqs : CropResolve(i)
    \/ \E i \in DOMAIN cropReqs : CropFail(i)
    \/ handleRemoveBg
    \/ BgTimerFires
    \/ BgResolve
    \/ BgReject
    \/ \E fmt \in CompressFormats : setCompressSettings("format", fmt)
    \/ \E q \in CompressQualities : setCompressSettings("quality", q)
    \/ CompressionTimerFires
    \/ handleDownloadCompressed
    \/ performDownload

Spec == Init /\ [][Next]_vars

\* What the event loop guarantees: a timer that was set fires, and the image
\* decode inside getCroppedImg ends.  The background-removal collaborator is
\* external and guarantees nothing.
FairSpec ==
    /\ Spec
    /\ WF_vars(BgTimerFires)
    /\ WF_vars(CompressionTimerFires)
    /\ WF_vars(\E i \in DOMAIN cropReqs : CropResolve(i) \/ CropFail(i))

---------------------------------------------------------------------------
(* The crop transform on pixels *)

\* Rasters are at most MaxSide pixels wide and high.
MaxSide == 2

\* A pixel is a colour and an alpha class.  Colours are numbers; -c stands
\* for a colour near c, not equal to it.
Transparent == [rgb |-> 0, alpha |-> "none"]

Positions(w, h) == (0..(w - 1)) \X (0..(h - 1))

\* The rasters drawn as inputs: every pixel has a colour of its own, so that a
\* misplaced pixel shows; the pixel at the origin is opaque or translucent.
Images ==
    { [width |-> w, height |-> h,
       px |-> [pos \in Positions(w, h) |->
                 [rgb |-> pos[2] * w + pos[1] + 1,
                  alpha |-> IF t /\ pos = <<0, 0>> THEN "partial" ELSE "opaque"]]] :
        w \in 1..MaxSide, h \in 1..MaxSide, t \in BOOLEAN }

NullCrop == [null |-> TRUE]
IsNull(pixelCrop) == "null" \in DOMAIN pixelCrop

\* The crop rectangles drawn as inputs, in and out of the raster
PixelCrops ==
    [x : -1..(MaxSide - 1), y : -1..(MaxSide - 1),
     width : 0..(MaxSide + 1), height : 0..(MaxSide + 1)]

Flips == [horizontal : BOOLEAN, vertical : BOOLEAN]

\* rotateSize for a rotation by a multiple of 90 degrees; the fractional
\* part left by Math.cos/Math.sin is dropped when the canvas size is set
rotateSize(width, height, rot) ==
    IF rot % 180 = 0
    THEN [width |-> width, height |-> height]
    ELSE [width |-> height, height |-> width]

\* ctx.translate(bBox/2); ctx.rotate(rotRad); ctx.scale(flip);
\* ctx.translate(-image/2): where the image pixel pos lands on the canvas.
\* Coordinates are doubled and centred to stay integral.
Transformed(img, rot, flp, pos) ==
    LET box == rotateSize(img.width, img.height, rot)
        u == 2 * pos[1] + 1 - img.width
        v == 2 * pos[2] + 1 - img.height
        su == IF flp.horizontal THEN -u ELSE u
        sv == IF flp.vertical THEN -v ELSE v
        r == rot % 360
        ru == CASE r = 0 -> su [] r = 90 -> -sv [] r = 180 -> -su [] r = 270 -> sv
        rv == CASE r = 0 -> sv [] r = 90 -> su [] r = 180 -> -sv [] r = 270 -> -su
    IN << (ru + box.width - 1) \div 2, (rv + box.height - 1) \div 2 >>

\* the canvas after ctx.drawImage(image, 0, 0) under that transform
Drawn(img, rot, flp) ==
    LET box == rotateSize(img.width, img.height, rot)
    IN [width |-> box.width, height |-> box.height,
        px |-> [cpos \in Positions(box.width, box.height) |->
                  LET src == CHOOSE pos \in DOMAIN img.px :
                                 Transformed(img, rot, flp, pos) = cpos
                  IN img.px[src]]]

\* ctx.getImageData(x, y, width, height) then canvas.width/height = ... and
\* ctx.putImageData(data, 0, 0): pixels outside the canvas are transparent
\* black
GetImageData(cv, rect) ==
    [width |-> rect.width, height |-> rect.height,
     px |-> [pos \in Positions(rect.width, rect.height) |->
               LET cpos == <<rect.x + pos[1], rect.y + pos[2]>>
               IN IF cpos \in DOMAIN cv.px THEN cv.px[cpos] ELSE Transparent]]

\* a colour near the colour of p
Approx(p) == [rgb |-> -p.rgb, alpha |-> p.alpha]

\* canvas.toDataURL("image/png"): the canvas keeps premultiplied colours, so
\* a translucent pixel may come back with a colour near the one drawn;
\* opaque and fully transparent pixels come back as they are
toDataURL_png(cv) ==
    LET partial == { pos \in DOMAIN cv.px : cv.px[pos].alpha = "partial" }
    IN { [cv EXCEPT !.px = [pos \in DOMAIN cv.px |->
                              IF pos \in A THEN Approx(cv.px[pos])
                              ELSE cv.px[pos]]] : A \in SUBSET partial }

\* canvas.toDataURL('image/jpeg'): no alpha channel, so every pixel is
\* composited onto black, and the encoding is lossy, so a colour may come
\* back as a colour near it (here: of at most one pixel)
toDataURL_jpeg(cv) ==
    LET onBlack(p) == CASE p.alpha = "opaque" -> p
                        [] p.alpha = "partial" -> [rgb |-> -p.rgb, alpha |-> "opaque"]
                        [] p.alpha = "none" -> [rgb |-> 0, alpha |-> "opaque"]
        lossy == { {} } \cup { {pos} : pos \in DOMAIN cv.px }
    IN { [cv EXCEPT !.px = [pos \in DOMAIN cv.px |->
                              IF pos \in A THEN Approx(onBlack(cv.px[pos]))
                              ELSE onBlack(cv.px[pos])]] : A \in lossy }

\* The calls of the crop functions: a raster, a rectangle or none, a rotation,
\* the flips, and whether the browser hands out a 2d context
CropCalls ==
    [kind : {"crop"}, img : Images, pixelCrop : PixelCrops \cup {NullCrop},
     rot : {0, 90, 180, 270}, flp : Flips, hasContext : BOOLEAN]

\* lib/image-processing getCroppedImg, the one performCrop awaits
getCroppedImg ==
    /\ call.kind = "crop"
    /\ result = NoResult
    /\ LET cv == Drawn(call.img, call.rot, call.flp)
       IN IF ~call.hasContext
          THEN result' = [status |-> "null", fn |-> "getCroppedImg"]
          ELSE IF IsNull(call.pixelCrop)
          THEN \E out \in toDataURL_png(cv) :
                  result' = [status |-> "returned", fn |-> "getCroppedImg",
                             type |-> "image/png", image |-> out]
          ELSE IF call.pixelCrop.width = 0 \/ call.pixelCrop.height = 0
          THEN result' = [status |-> "thrown", fn |-> "getCroppedImg"]
          ELSE \E out \in toDataURL_png(GetImageData(cv, call.pixelCrop)) :
                  result' = [status |-> "returned", fn |-> "getCroppedImg",
                             type |-> "image/png", image |-> out]
    /\ UNCHANGED <<sessionVars, editor, call>>

\* lib/imageUtils getCroppedImg: the rectangle is required, the result is a
\* JPEG, and '' stands for the missing context
imageUtils_getCroppedImg ==
    /\ call.kind = "crop"
    /\ ~IsNull(call.pixelCrop)
    /\ result = NoResult
    /\ LET cv == Drawn(call.img, call.rot, call.flp)
       IN IF ~call.hasContext
          THEN result' = [status |-> "empty", fn |-> "imageUtils.getCroppedImg"]
          ELSE IF call.pixelCrop.width = 0 \/ call.pixelCrop.height = 0
          THEN result' = [status |-> "thrown", fn |-> "imageUtils.getCroppedImg"]
          ELSE \E out \in toDataURL_jpeg(GetImageData(cv, call.pixelCrop)) :
                  result' = [status |-> "returned", fn |-> "imageUtils.getCroppedImg",
                             type |-> "image/jpeg", image |-> out]
    /\ UNCHANGED <<sessionVars, editor, call>>

---------------------------------------------------------------------------
(* The composers of CSS filter lists *)

\* utils/imageProcessing Adjustment: the defaults of its fields
AdjustmentDefaults ==
    [brightness |-> 100, contrast |-> 100, saturation |-> 100, blur |-> 0,
     hue |-> 0, sepia |-> 0]

\* utils/imageProcessing getFilterString(adj)
Adjustment_getFilterString(adj) ==
    << <<"brightness", adj.brightness, "%">>,
       <<"contrast", adj.contrast, "%">>,
       <<"saturate", adj.saturation, "%">>,
       <<"blur", adj.blur, "px">>,
       <<"hue-rotate", adj.hue, "deg">>,
       <<"sepia", adj.sepia, "%">> >>

\* Gingham's table in INSTAGRAM_FILTERS: a preset that writes a zero
Gingham == [brightness |-> 105, hueRotate |-> -10, sepia |-> 0]

\* a || b on an optional number: b for undefined and for 0
OrElse(table, k, b) ==
    IF k \in DOMAIN table /\ table[k] # 0 THEN table[k] ELSE b

\* FilterPreview's filterStyle.filter for the preset table f.filter
filterStyle(table) ==
    << <<"brightness", OrElse(table, "brightness", 100), "%">>,
       <<"contrast", OrElse(table, "contrast", 100), "%">>,
       <<"saturate", OrElse(table, "saturate", 100), "%">>,
       <<"sepia", OrElse(table, "sepia", 0), "%">>,
       <<"grayscale", OrElse(table, "grayscale", 0), "%">>,
       <<"blur", OrElse(table, "blur", 0), "px">>,
       <<"hue-rotate", OrElse(table, "hueRotate", 0), "deg">> >>

\* The calls of the composers: the live adjustments of the session (with and
\* without the key a preset adds), an Adjustment, a preset table
DescriptorCalls ==
    [kind : {"filters"},
     filters : { DEFAULT_FILTERS,
                 [DEFAULT_FILTERS EXCEPT !.brightness = 120],
                 [DEFAULT_FILTERS EXCEPT !.grayscale = 100, !.blur = 2],
                 Spread(DEFAULT_FILTERS, INSTAGRAM_FILTERS("Clarendon")) }]
    \cup
    [kind : {"adjustment"},
     adj : { AdjustmentDefaults,
             [AdjustmentDefaults EXCEPT !.sepia = 50],
             [AdjustmentDefaults EXCEPT !.blur = 3, !.hue = 90] }]
    \cup
    [kind : {"preset"},
     table : { INSTAGRAM_FILTERS(n) : n \in PresetNames } \cup {Gingham}]

\* ImageEditor's getFilterString is called
getFilterString_returns ==
    /\ call.kind = "filters"
    /\ result = NoResult
    /\ result' = [status |-> "returned", fn |-> "getFilterString",
                  descriptor |-> getFilterString(call.filters)]
    /\ UNCHANGED <<sessionVars, editor, call>>

\* utils/imageProcessing getFilterString is called
Adjustment_getFilterString_returns ==
    /\ call.kind = "adjustment"
    /\ result = NoResult
    /\ result' = [status |-> "returned", fn |-> "Adjustment.getFilterString",
                  descriptor |-> Adjustment_getFilterString(call.adj)]
    /\ UNCHANGED <<sessionVars, editor, call>>

\* a FilterPreview renders
filterStyle_returns ==
    /\ call.kind = "preset"
    /\ result = NoResult
    /\ result' = [status |-> "returned", fn |-> "filterStyle",
                  descriptor |-> filterStyle(call.table)]
    /\ UNCHANGED <<sessionVars, editor, call>>

---------------------------------------------------------------------------
(* The functions on their own: one call, one result *)

FnInit ==
    /\ SessionInit
    /\ editor = NotMounted
    /\ call \in CropCalls \cup DescriptorCalls
    /\ result = NoResult

FnNext ==
    \/ getCroppedImg
    \/ imageUtils_getCroppedImg
    \/ getFilterString_returns
    \/ Adjustment_getFilterString_returns
    \/ filterStyle_returns

FnSpec == FnInit /\ [][FnNext]_vars

---------------------------------------------------------------------------
(* The Editor component of utils/imageProcessing *)

\* clicks and strokes in one run of the Editor
MaxEditorEvents == 6

\* the tabs the sidebar can select
EditorTabs == {"crop", "adjust", "filter", "markup", "retouch"}

defaultAdjustments ==
    [brightness |-> 100, contrast |-> 100, saturation |-> 100, exposure |-> 0,
     blur |-> 0, hue |-> 0, sepia |-> 0]

\* the adjustments the Adjust and Filter panels set
PanelAdjustments ==
    { [defaultAdjustments EXCEPT !.brightness = 120],
      [defaultAdjustments EXCEPT !.sepia = 100],
      defaultAdjustments }

\* A raster of the Editor is the list of the operations flattened into the
\* imageSrc prop, which is the empty list.
EditorImage == << >>

\* What the canvas element shows and toDataURL encodes: the current raster
\* with the live adjustments as its filter and the lines drawn on top
Canvas_composite(e) ==
    Append(At(e.history, e.historyIndex),
           [op |-> "composite", adjustments |-> e.adjustments, lines |-> e.lines])

\* the raster CropPanel hands to onApply
CropPanel_cropped(e) ==
    Append(At(e.history, e.historyIndex),
           [op |-> "crop", adjustments |-> defaultAdjustments, lines |-> << >>])

\* the Editor after its first render; hasCanvas: canvasRef.current is set
EditorMounted ==
    { [activeTab |-> "crop", history |-> <<EditorImage>>, historyIndex |-> 0,
       adjustments |-> defaultAdjustments, lines |-> << >>, hasCanvas |-> c,
       events |-> 0] : c \in BOOLEAN }

\* Editor's addToHistory(newImageSrc), on the record e
Editor_addToHistory(e, newImageSrc) ==
    LET newHistory == Append(Slice(e.history, e.historyIndex), newImageSrc)
    IN [e EXCEPT !.history = newHistory, !.historyIndex = Len(newHistory) - 1]

Counted(e) == [e EXCEPT !.events = e.events + 1]

\* a sidebar ToolButton
Editor_setActiveTab(t) ==
    /\ editor.events < MaxEditorEvents
    /\ editor' = Counted([editor EXCEPT !.activeTab = t])
    /\ UNCHANGED <<sessionVars, fnVars>>

\* AdjustPanel and FilterPanel call setAdjustments
Editor_setAdjustments(a) ==
    /\ editor.events < MaxEditorEvents
    /\ editor.activeTab \in {"adjust", "filter"}
    /\ editor' = Counted([editor EXCEPT !.adjustments = a])
    /\ UNCHANGED <<sessionVars, fnVars>>

\* the Canvas adds a stroke through setLines while the Markup tab is open
Editor_setLines ==
    /\ editor.events < MaxEditorEvents
    /\ editor.activeTab = "markup"
    /\ editor' = Counted([editor EXCEPT !.lines = Append(@, "stroke")])
    /\ UNCHANGED <<sessionVars, fnVars>>

\* MarkupPanel's onClear
Editor_onClear ==
    /\ editor.events < MaxEditorEvents
    /\ editor.activeTab = "markup"
    /\ editor' = Counted([editor EXCEPT !.lines = << >>])
    /\ UNCHANGED <<sessionVars, fnVars>>

\* CropPanel's onApply={addToHistory}
Editor_onApplyCrop ==
    /\ editor.events < MaxEditorEvents
    /\ editor.activeTab = "crop"
    /\ editor' = Counted(Editor_addToHistory(editor, CropPanel_cropped(editor)))
    /\ UNCHANGED <<sessionVars, fnVars>>

\* a commitChanges that leaves the live adjustments as they are
commitChanges_KeepsAdjustments(e) ==
    IF ~e.hasCanvas THEN e
    ELSE [Editor_addToHistory(e, Canvas_composite(e)) EXCEPT !.lines = << >>]

\* commitChanges on the record e
commitChanges(e) ==
    IF ~e.hasCanvas THEN e
    ELSE [Editor_addToHistory(e, Canvas_composite(e)) EXCEPT
              !.adjustments = defaultAdjustments, !.lines = << >>]

\* Apply Changes (Adjust, Filter), MarkupPanel's onApply, RetouchPanel's
\* onCommit
Editor_commitChanges ==
    /\ editor.events < MaxEditorEvents
    /\ editor.activeTab \in {"adjust", "filter", "markup", "retouch"}
    /\ editor' = Counted(commitChanges(editor))
    /\ UNCHANGED <<sessionVars, fnVars>>

\* Undo (disabled at the first entry)
Editor_handleUndo ==
    /\ editor.events < MaxEditorEvents
    /\ editor.historyIndex > 0
    /\ editor' = Counted([editor EXCEPT !.historyIndex = @ - 1])
    /\ UNCHANGED <<sessionVars, fnVars>>

\* Redo (disabled at the last entry)
Editor_handleRedo ==
    /\ editor.events < MaxEditorEvents
    /\ editor.historyIndex < Len(editor.history) - 1
    /\ editor' = Counted([editor EXCEPT !.historyIndex = @ + 1])
    /\ UNCHANGED <<sessionVars, fnVars>>

EditorInit ==
    /\ SessionInit
    /\ call = NoCall
    /\ result = NoResult
    /\ editor \in EditorMounted

EditorNext ==
    \/ \E t \in EditorTabs : Editor_setActiveTab(t)
    \/ \E a \in PanelAdjustments : Editor_setAdjustments(a)
    \/ Editor_setLines
    \/ Editor_onClear
    \/ Editor_onApplyCrop
    \/ Editor_commitChanges
    \/ Editor_handleUndo
    \/ Editor_handleRedo

EditorSpec == EditorInit /\ [][EditorNext]_vars

---------------------------------------------------------------------------
(* The region operators of the Repair tool, on pixels *)

\* Canvases are at most MaxCanvas pixels wide and high; a retouch has a
\* radius of at most MaxRadius.
MaxCanvas == 5
MaxRadius == 2

\* A pixel of ImageData: four bytes
TransparentBlack == [r |-> 0, g |-> 0, b |-> 0, a |-> 0]

\* The colours painted on the canvases drawn as inputs, all opaque: one flat
\* colour, a gradient, and red pixels among green ones
Paint(pattern, pos) ==
    CASE pattern = "flat" -> [r |-> 90, g |-> 60, b |-> 30, a |-> 255]
      [] pattern = "gradient" ->
            [r |-> 40 * pos[1], g |-> 40 * pos[2],
             b |-> 7 * pos[1] * pos[2], a |-> 255]
      [] pattern = "eyes" ->
            IF (pos[1] + pos[2]) % 2 = 0
            THEN [r |-> 200, g |-> 10, b |-> 10 + pos[1], a |-> 255]
            ELSE [r |-> 10, g |-> 200, b |-> 10, a |-> 255]

\* rim: the pixels whose colour lies between the colour they had before the
\* last clipped drawing and the colour in px (anti-aliased edge of the clip)
Canvases ==
    { [width |-> w, height |-> h,
       px |-> [pos \in Positions(w, h) |-> Paint(pattern, pos)],
       rim |-> {}] :
        w \in 1..MaxCanvas, h \in 1..MaxCanvas,
        pattern \in {"flat", "gradient", "eyes"} }

\* ctx.getImageData(sx, sy, sw, sh) for sw, sh > 0
ImageDataOf(cv, sx, sy, sw, sh) ==
    [width |-> sw, height |-> sh,
     px |-> [pos \in Positions(sw, sh) |->
               LET cpos == <<sx + pos[1], sy + pos[2]>>
               IN IF cpos \in DOMAIN cv.px THEN cv.px[cpos]
                  ELSE TransparentBlack]]

\* storing n / d in a Uint8ClampedArray: the nearest integer, the even one
\* at a tie
RoundHalfEven(n, d) ==
    LET q == n \div d
        rem == n % d
    IN IF 2 * rem < d THEN q
       ELSE IF 2 * rem > d THEN q + 1
       ELSE IF q % 2 = 0 THEN q ELSE q + 1

RECURSIVE SumChannel(_, _, _)
SumChannel(px, S, ch) ==
    IF S = {} THEN 0
    ELSE LET q == CHOOSE q \in S : TRUE
         IN px[q][ch] + SumChannel(px, S \ {q}, ch)

Abs(n) == IF n < 0 THEN -n ELSE n

\* the 5 x 5 neighbourhood of pos among the positions S
Neighbours(S, pos) ==
    { q \in S : Abs(q[1] - pos[1]) <= 2 /\ Abs(q[2] - pos[2]) <= 2 }

\* spotFix's loops over imageData: each of r, g, b becomes the mean over the
\* neighbours that lie inside imageData
BoxBlur(data) ==
    [data EXCEPT !.px =
        [pos \in DOMAIN data.px |->
            LET nb == Neighbours(DOMAIN data.px, pos)
                count == Cardinality(nb)
            IN [r |-> RoundHalfEven(SumChannel(data.px, nb, "r"), count),
                g |-> RoundHalfEven(SumChannel(data.px, nb, "g"), count),
                b |-> RoundHalfEven(SumChannel(data.px, nb, "b"), count),
                a |-> data.px[pos].a]]]

\* removeRedEye's loop over imageData
Desaturated(p) ==
    IF p.r > p.g + p.b /\ p.r > 50
    THEN LET avg == RoundHalfEven(p.g + p.b, 2)
         IN [r |-> avg, g |-> avg, b |-> avg, a |-> p.a]
    ELSE p

DesaturateRed(data) ==
    [data EXCEPT !.px = [pos \in DOMAIN data.px |-> Desaturated(data.px[pos])]]

\* How the disc of ctx.arc(x, y, radius) covers the pixel at pos, the unit
\* square from pos to pos + <<1, 1>>: "in" when the whole square is inside,
\* "out" when none of it is, "rim" otherwise
Coverage(pos, x, y, radius) ==
    LET farX == IF Abs(pos[1] - x) > Abs(pos[1] + 1 - x)
                THEN Abs(pos[1] - x) ELSE Abs(pos[1] + 1 - x)
        farY == IF Abs(pos[2] - y) > Abs(pos[2] + 1 - y)
                THEN Abs(pos[2] - y) ELSE Abs(pos[2] + 1 - y)
        nearX == IF x < pos[1] THEN pos[1] - x
                 ELSE IF x > pos[1] + 1 THEN x - pos[1] - 1 ELSE 0
        nearY == IF y < pos[2] THEN pos[2] - y
                 ELSE IF y > pos[2] + 1 THEN y - pos[2] - 1 ELSE 0
    IN IF farX * farX + farY * farY <= radius * radius THEN "in"
       ELSE IF nearX * nearX + nearY * nearY >= radius * radius THEN "out"
       ELSE "rim"

\* ctx.save(); ctx.arc(x, y, radius, 0, 2 pi); ctx.clip();
\* ctx.drawImage(tempCanvas, startX, startY); ctx.restore(), for radius > 0:
\* source-over inside the disc
DrawClipped(cv, temp, startX, startY, x, y, radius) ==
    LET src(pos) == temp.px[<<pos[1] - startX, pos[2] - startY>>]
        drawn(pos) ==
            /\ <<pos[1] - startX, pos[2] - startY>> \in DOMAIN temp.px
            /\ Coverage(pos, x, y, radius) # "out"
            /\ src(pos).a = 255
            /\ src(pos) # cv.px[pos]
    IN [cv EXCEPT
          !.px = [pos \in DOMAIN cv.px |->
                     IF drawn(pos) THEN src(pos) ELSE cv.px[pos]],
          !.rim = { pos \in DOMAIN cv.px :
                      drawn(pos) /\ Coverage(pos, x, y, radius) = "rim" }]

Max(a, b) == IF a > b THEN a ELSE b

\* The 2d contexts the browser hands out: for the canvas, and for the
\* temporary canvas the operators create
Contexts ==
    { [hasContext |-> FALSE, hasTempContext |-> FALSE],
      [hasContext |-> TRUE, hasTempContext |-> FALSE],
      [hasContext |-> TRUE, hasTempContext |-> TRUE] }

\* The calls of spotFix and removeRedEye: a canvas, a point of it, a radius
RetouchCalls ==
    UNION { { [kind |-> "retouch", canvas |-> cv, x |-> x, y |-> y,
               radius |-> rd, hasContext |-> c.hasContext,
               hasTempContext |-> c.hasTempContext] :
                 x \in 0..cv.width, y \in 0..cv.height,
                 rd \in (-1)..MaxRadius, c \in Contexts } :
            cv \in Canvases }

Returned(fn, cv) ==
    [status |-> "returned", fn |-> fn, canvas |-> cv, applied |-> 1]

Thrown(fn, cv) ==
    [status |-> "thrown", fn |-> fn, canvas |-> cv, applied |-> 1]

\* spotFix(canvas, x, y, radius).  getImageData throws IndexSizeError for a
\* zero width; ctx.arc throws IndexSizeError for a negative radius, before
\* anything is drawn.
spotFix ==
    /\ call.kind = "retouch"
    /\ result = NoResult
    /\ LET cv == call.canvas
           size == call.radius * 2
           startX == Max(0, call.x - call.radius)
           startY == Max(0, call.y - call.radius)
       IN result' =
            IF ~call.hasContext THEN Returned("spotFix", cv)
            ELSE IF size = 0 THEN Thrown("spotFix", cv)
            ELSE IF ~call.hasTempContext THEN Returned("spotFix", cv)
            ELSE IF call.radius < 0 THEN Thrown("spotFix", cv)
            ELSE Returned("spotFix",
                          DrawClipped(cv,
                                      BoxBlur(ImageDataOf(cv, startX, startY,
                                                          size, size)),
                                      startX, startY, call.x, call.y,
                                      call.radius))
    /\ UNCHANGED <<sessionVars, editor, call>>

\* removeRedEye(canvas, x, y, radius)
removeRedEye ==
    /\ call.kind = "retouch"
    /\ result = NoResult
    /\ LET cv == call.canvas
           size == call.radius * 2
           startX == Max(0, call.x - call.radius)
           startY == Max(0, call.y - call.radius)
       IN result' =
            IF ~call.hasContext THEN Returned("removeRedEye", cv)
            ELSE IF startX + size > cv.width \/ startY + size > cv.height
            THEN Returned("removeRedEye", cv)
            ELSE IF size = 0 THEN Thrown("removeRedEye", cv)
            ELSE IF ~call.hasTempContext THEN Returned("removeRedEye", cv)
            ELSE IF call.radius < 0 THEN Thrown("removeRedEye", cv)
            ELSE Returned("removeRedEye",
                          DrawClipped(cv,
                                      DesaturateRed(ImageDataOf(cv, startX,
                                                                startY, size,
                                                                size)),
                                      startX, startY, call.x, call.y,
                                      call.radius))
    /\ UNCHANGED <<sessionVars, editor, call>>

---------------------------------------------------------------------------
(* Chroma key *)

\* Canvases keyed are one pixel high and at most MaxChromaWidth wide; the
\* operation is applied at most MaxApplications times in a row.
MaxChromaWidth == 2
MaxApplications == 2

\* Pixels at distance 0, 5, 13 and far from black, and a transparent one
ChromaPixels ==
    { [r |-> 0, g |-> 0, b |-> 0, a |-> 255],
      [r |-> 3, g |-> 4, b |-> 0, a |-> 255],
      [r |-> 3, g |-> 4, b |-> 12, a |-> 255],
      [r |-> 200, g |-> 10, b |-> 10, a |-> 255],
      TransparentBlack }

ChromaCanvases ==
    UNION { { [width |-> w, height |-> 1, px |-> f, rim |-> {}] :
                f \in [Positions(w, 1) -> ChromaPixels] } :
            w \in 1..MaxChromaWidth }

\* The calls of removeColorRange.  premultiplied: the canvas keeps its
\* colours multiplied by alpha, as the browsers' 2d canvases do, so the
\* colour of a pixel stored with alpha 0 is lost.
ChromaCalls ==
    [kind : {"chroma"}, canvas : ChromaCanvases,
     targetColor : { [r |-> 0, g |-> 0, b |-> 0], [r |-> 3, g |-> 4, b |-> 0] },
     tolerance : {-1, 0, 5, 6, 13, 14},
     hasContext : BOOLEAN, premultiplied : BOOLEAN]

\* Math.pow(r - t.r, 2) + Math.pow(g - t.g, 2) + Math.pow(b - t.b, 2)
SquaredDistance(p, t) ==
    (p.r - t.r) * (p.r - t.r) + (p.g - t.g) * (p.g - t.g)
        + (p.b - t.b) * (p.b - t.b)

\* the comparison with <= in place of <
Within_Inclusive(d2, tolerance) == tolerance >= 0 /\ d2 <= tolerance * tolerance

\* Math.sqrt(d2) < tolerance, on integers
Within(d2, tolerance) == tolerance > 0 /\ d2 < tolerance * tolerance

\* ctx.putImageData(imgData, 0, 0) over the whole canvas
PutImageData(cv, data, premultiplied) ==
    [cv EXCEPT !.px =
        [pos \in DOMAIN cv.px |->
            IF premultiplied /\ data.px[pos].a = 0 THEN TransparentBlack
            ELSE data.px[pos]]]

\* removeColorRange(canvas, targetColor, tolerance), on the canvas of the
\* call or, again, on the canvas it left
removeColorRange ==
    /\ call.kind = "chroma"
    /\ \/ result = NoResult
       \/ result # NoResult /\ result.applied < MaxApplications
    /\ LET cv == IF result = NoResult THEN call.canvas ELSE result.canvas
           n == IF result = NoResult THEN 0 ELSE result.applied
           imgData == ImageDataOf(cv, 0, 0, cv.width, cv.height)
           keyed == [imgData EXCEPT !.px =
                       [pos \in DOMAIN imgData.px |->
                           IF Within(SquaredDistance(imgData.px[pos],
                                                     call.targetColor),
                                     call.tolerance)
                           THEN [imgData.px[pos] EXCEPT !.a = 0]
                           ELSE imgData.px[pos]]]
       IN result' =
            [status |-> "returned", fn |-> "removeColorRange",
             canvas |-> IF call.hasContext
                        THEN PutImageData(cv, keyed, call.premultiplied)
                        ELSE cv,
             applied |-> n + 1]
    /\ UNCHANGED <<sessionVars, editor, call>>

---------------------------------------------------------------------------
(* The canvas operators on their own: one call, its result *)

RetouchInit ==
    /\ SessionInit
    /\ editor = NotMounted
    /\ call \in RetouchCalls \cup ChromaCalls
    /\ result = NoResult

RetouchNext ==
    \/ spotFix
    \/ removeRedEye
    \/ removeColorRange

RetouchSpec == RetouchInit /\ [][RetouchNext]_vars

---------------------------------------------------------------------------
(* Undo and redo on their own, from a history of any length *)

\* histories of at most MaxNavLength entries
MaxNavLength == 3

\* The histories of the session that navigation starts from: entry k holds
\* raster k - 1, with the default adjustments or others
NavHistories ==
    UNION { [1..n -> { [src |-> 0, filters |-> DEFAULT_FILTERS],
                       [src |-> 0,
                        filters |-> [DEFAULT_FILTERS EXCEPT !.brightness = 120]] }] :
            n \in 1..MaxNavLength }

Numbered(h) == [k \in DOMAIN h |-> [h[k] EXCEPT !.src = k - 1]]

\* the history of the Editor with n entries, each a crop of the one before
EditorHistory(n) ==
    [k \in 1..n |->
        [j \in 1..(k - 1) |->
            [op |-> "crop", adjustments |-> defaultAdjustments, lines |-> << >>]]]

\* The session and the Editor with some history and any entry of it current;
\* call keeps what they started from.
NavInit ==
    /\ \E h \in NavHistories : history = Numbered(h)
    /\ historyIndex \in 0..(Len(history) - 1)
    /\ imageSrc = At(history, historyIndex).src
    /\ filters \in {At(history, historyIndex).filters,
                    [DEFAULT_FILTERS EXCEPT !.brightness = 120]}
    /\ lastAppliedFilters = At(history, historyIndex).filters
    /\ mode = "null"
    /\ isDrawing = FALSE
    /\ lastPos = "null"
    /\ crop = "undefined"
    /\ completedCrop = "undefined"
    /\ rotation = 0
    /\ flip = NoFlip
    /\ isRemovingBg = FALSE
    /\ canvas = imageSrc
    /\ bgReqs = << >>
    /\ cropReqs = << >>
    /\ bgAlert = FALSE
    /\ nextRaster = Len(history)
    /\ events = 0
    /\ compressSettings = [format |-> "image/jpeg", quality |-> 80]
    /\ compressTimer = FALSE
    /\ compressedPreview = NoPreview
    /\ download = NoDownload
    /\ \E n \in 1..MaxNavLength, i \in 0..(MaxNavLength - 1) :
          /\ i < n
          /\ editor = [activeTab |-> "crop", history |-> EditorHistory(n),
                       historyIndex |-> i, adjustments |-> defaultAdjustments,
                       lines |-> << >>, hasCanvas |-> TRUE, events |-> 0]
    /\ call = [kind |-> "navigation", history |-> history,
               historyIndex |-> historyIndex, imageSrc |-> imageSrc,
               editor |-> editor]
    /\ result = NoResult

NavNext ==
    \/ handleUndo
    \/ handleRedo
    \/ Editor_handleUndo
    \/ Editor_handleRedo

NavSpec == NavInit /\ [][NavNext]_vars

---------------------------------------------------------------------------
(* Claims *)

\* a commit made from a closure whose history and index are h and i: the
\* entries 0..i of h are kept, the later ones dropped, one entry holding the
\* new raster and adjustments is appended and is the current one
CommitOf(h, i) ==
    /\ history' = Append(Slice(h, i), [src |-> imageSrc', filters |-> filters'])
    /\ Len(history') = i + 2
    /\ historyIndex' = i + 1
    /\ \A k \in 0..i : At(history', k) = At(h, k)

\* C1: the history starts as the single entry {loaded image, default
\* adjustments} with index 0, and in every reachable state the history is not
\* empty and 0 <= historyIndex <= length - 1.
C1_IndexInRange ==
    /\ Len(history) >= 1
    /\ historyIndex \in 0..(Len(history) - 1)
    /\ events = 0 =>
         /\ history = << [src |-> InitialImage, filters |-> DEFAULT_FILTERS] >>
         /\ historyIndex = 0

\* C1 witness: two commits, then one undo: the index is strictly inside
C1_Witness ==
    /\ Len(history) = 3
    /\ historyIndex = 1

C3_Undo ==
    [][ handleUndo =>
          IF historyIndex > 0
          THEN /\ historyIndex' = historyIndex - 1
               /\ history' = history
               /\ imageSrc' = At(history, historyIndex - 1).src
               /\ filters' = At(history, historyIndex - 1).filters
          ELSE UNCHANGED vars
      ]_vars

\* C3 witness: an undo has restored adjustments that differ from the ones of
\* the entry it left
C3_Witness ==
    /\ Len(history) = 2
    /\ historyIndex = 0
    /\ history[2].filters # history[1].filters
    /\ filters = history[1].filters
    /\ imageSrc = history[1].src

\* C4: redo at index < length - 1 increments the index by one, leaves the
\* history as it is and makes imageSrc and the live adjustments those of the
\* entry now current; at index = length - 1 it changes nothing.
C4_Redo ==
    [][ handleRedo =>
          IF historyIndex < Len(history) - 1
          THEN /\ historyIndex' = historyIndex + 1
               /\ history' = history
               /\ imageSrc' = At(history, historyIndex + 1).src
               /\ filters' = At(history, historyIndex + 1).filters
          ELSE UNCHANGED vars
      ]_vars

\* C4 witness: after two undos and one redo the middle entry, whose raster
\* differs from both neighbours, is current again
C4_Witness ==
    /\ Len(history) = 3
    /\ historyIndex = 1
    /\ history[1].src # history[2].src
    /\ history[3].src # history[2].src
    /\ imageSrc = history[2].src
    /\ events = 7
    /\ mode = "repair"

\* C5: in draw or repair mode a press arms the gesture and the release that
\* follows it appends exactly one entry, holding the canvas as it is at the
\* release, and makes it current; presses and moves commit nothing, so there
\* is one entry per stroke or retouch; a release with no press before it
\* changes nothing.
C5_StrokeCommitsOnRelease ==
    [][ /\ (startInteraction /\ mode \in {"draw", "repair"}) =>
             /\ isDrawing'
             /\ UNCHANGED <<history, historyIndex>>
        /\ moveInteraction => UNCHANGED <<history, historyIndex>>
        /\ (endInteraction /\ isDrawing /\ mode \in {"draw", "repair"}) =>
             /\ CommitOf(history, historyIndex)
             /\ At(history', historyIndex').src = canvas
             /\ imageSrc' = canvas
             /\ ~isDrawing'
        /\ (endInteraction /\ ~isDrawing) => UNCHANGED vars
      ]_vars

\* C5 witness: two strokes drawn one after the other, each with an entry of
\* its own
C5_Witness ==
    /\ mode = "draw"
    /\ ~isDrawing
    /\ Len(history) = 3
    /\ historyIndex = 2
    /\ history[2].src = 1
    /\ history[3].src = 2
    /\ events = 7

\* C6: a slider change in adjust mode and a preset selection in filter mode
\* leave the history and the index as they are; Apply appends exactly one
\* entry, which holds the current raster and the live adjustments, and makes
\* it current.
C6_OnlyApplyCommitsAdjustments ==
    [][ /\ (\E in \in SliderInputs : setFilters(in[1], in[2])) =>
             UNCHANGED <<history, historyIndex, imageSrc>>
        /\ (\E n \in PresetNames : selectPreset(n)) =>
             UNCHANGED <<history, historyIndex, imageSrc>>
        /\ applyFilters =>
             /\ CommitOf(history, historyIndex)
             /\ At(history', historyIndex') = [src |-> imageSrc, filters |-> filters]
             /\ filters' = filters
      ]_vars

\* C6 witness: brightness 120 applied, then the slider moved back: the entry
\* holds 120, the live value is 100 and the history still has two entries
C6_Witness ==
    /\ mode = "adjust"
    /\ Len(history) = 2
    /\ historyIndex = 1
    /\ history[2].filters.brightness = 120
    /\ history[2].src = InitialImage
    /\ filters.brightness = 100
    /\ events = 4

\* C7: whenever the mode becomes crop while the live adjustments differ from
\* the defaults or the canvas holds strokes not yet committed, a baked raster
\* has been committed and the live adjustments are the defaults once crop
\* mode is active.
C7_BakeBeforeCrop ==
    [][ ( /\ mode # "crop"
          /\ mode' = "crop"
          /\ (filters # DEFAULT_FILTERS \/ canvas # imageSrc) ) =>
             /\ filters' = DEFAULT_FILTERS
             /\ history' # history
             /\ historyIndex' = Len(history') - 1
      ]_vars

\* C8: when removeImageBackground resolves, exactly one entry holding its
\* result is appended by the commit and is the current one, and the result is
\* the current raster; when it rejects, the history, the index, the current
\* raster and the live adjustments stay as they are, the alert is shown and
\* the removing-background state is left.
C8_BgRemovalOutcome ==
    [][ /\ BgResolve =>
             /\ history' = Append(Slice(bgReqs[1].history, bgReqs[1].historyIndex),
                                  [src |-> nextRaster, filters |-> bgReqs[1].filters])
             /\ historyIndex' = Len(history') - 1
             /\ imageSrc' = nextRaster
             /\ nextRaster \notin {history[k].src : k \in DOMAIN history}
             /\ ~isRemovingBg'
        /\ BgReject =>
             /\ UNCHANGED <<history, historyIndex, imageSrc, filters,
                            lastAppliedFilters, mode, canvas>>
             /\ bgAlert'
             /\ ~isRemovingBg'
      ]_vars

\* C8 witness: a removal has failed: the alert is up, the overlay is gone and
\* the history is the initial one
C8_Witness ==
    /\ bgAlert
    /\ ~isRemovingBg
    /\ bgReqs = << >>
    /\ mode = "remove-bg"
    /\ history = << [src |-> InitialImage, filters |-> DEFAULT_FILTERS] >>
    /\ historyIndex = 0
    /\ imageSrc = InitialImage

\* C9: if the history or the index has changed between the start of a
\* background removal and the arrival of its result, the result is discarded:
\* the history, the index and the current raster stay as they are.
C9_StaleResultDiscarded ==
    [][ ( /\ BgResolve
          /\ \/ bgReqs[1].history # history
             \/ bgReqs[1].historyIndex # historyIndex ) =>
             UNCHANGED <<history, historyIndex, imageSrc>>
      ]_vars

\* C10: once a background removal has started, the removing-background state
\* is eventually left, whether or not removeImageBackground ever settles.
C10_BgRemovalEnds ==
    isRemovingBg ~> ~isRemovingBg

\* C11: a crop that succeeds leaves rotation 0, both flip flags false and no
\* crop rectangle, whatever they were when the crop was requested or are when
\* it resolves, so the next crop request starts from the identity.
C11_CropResetsTransform ==
    [][ \A i \in DOMAIN cropReqs :
          CropResolve(i) =>
            /\ rotation' = 0
            /\ flip' = NoFlip
            /\ crop' = "undefined"
            /\ completedCrop' = "undefined"
      ]_vars

\* C11 witness: of two requests made with rotation 90 one has succeeded: the
\* controller's rotation is 0 again while the other request still carries 90
C11_Witness ==
    /\ Len(cropReqs) = 1
    /\ cropReqs[1].rotation = 90
    /\ rotation = 0
    /\ flip = NoFlip
    /\ completedCrop = "undefined"
    /\ mode = "null"
    /\ Len(history) = 2
    /\ history[2].src = 1
    /\ events = 4

\* C13: drawing on the canvas (a retouch at the press in repair mode, a stroke
\* segment at a move in draw mode) changes the canvas and no history entry;
\* the commit at the release keeps every entry up to the current one as it
\* is; undo makes the current raster the raster the entry was committed
\* with, and the canvas, redrawn when the current raster changes, shows it.
C13_EntriesImmutable ==
    [][ /\ (startInteraction \/ moveInteraction) =>
             UNCHANGED <<history, historyIndex, imageSrc>>
        /\ (endInteraction /\ isDrawing) =>
             \A k \in 0..historyIndex : At(history', k) = At(history, k)
        /\ (handleUndo /\ historyIndex > 0) =>
             /\ imageSrc' = At(history, historyIndex - 1).src
             /\ (canvasMounted /\ imageSrc' # imageSrc) =>
                  canvas' = At(history, historyIndex - 1).src
      ]_vars

\* C13 witness: a second stroke is being drawn on the canvas after the first
\* one was committed: the canvas has moved on, the entry has not
C13_Witness ==
    /\ mode = "draw"
    /\ isDrawing
    /\ canvas = 2
    /\ imageSrc = 1
    /\ Len(history) = 2
    /\ history[1].src = InitialImage
    /\ history[2].src = 1
    /\ historyIndex = 1

\* the adjustment field a preset key stands for
AdjustmentField(k) == IF k = "saturate" THEN "saturation" ELSE k

\* C15: selecting a preset sets every adjustment field the preset specifies
\* to the preset's value, the preset's saturate value becoming the saturation
\* adjustment.
C15_PresetSetsItsFields ==
    [][ \A n \in PresetNames :
          selectPreset(n) =>
            \A k \in DOMAIN INSTAGRAM_FILTERS(n) :
              /\ AdjustmentField(k) \in DOMAIN filters'
              /\ filters'[AdjustmentField(k)] = INSTAGRAM_FILTERS(n)[k]
      ]_vars

\* C16: in filter mode selecting a preset sets every field the preset
\* specifies to the preset's value and every other field to its last-applied
\* value; the live adjustments before the selection play no part, so
\* unapplied tweaks are dropped and a preset selected after another gives
\* what it gives alone.
C16_PresetMergesOntoLastApplied ==
    [][ \A n \in PresetNames :
          selectPreset(n) =>
            /\ DOMAIN filters' = DOMAIN lastAppliedFilters \cup DOMAIN INSTAGRAM_FILTERS(n)
            /\ \A k \in DOMAIN INSTAGRAM_FILTERS(n) :
                 filters'[k] = INSTAGRAM_FILTERS(n)[k]
            /\ \A k \in DOMAIN lastAppliedFilters \ DOMAIN INSTAGRAM_FILTERS(n) :
                 filters'[k] = lastAppliedFilters[k]
            /\ lastAppliedFilters' = lastAppliedFilters
      ]_vars

\* C16 witness: brightness 120 was applied, then Clarendon selected: its
\* fields are Clarendon's, the others the last-applied ones
C16_Witness ==
    /\ mode = "filter"
    /\ lastAppliedFilters = [DEFAULT_FILTERS EXCEPT !.brightness = 120]
    /\ filters.brightness = 110
    /\ filters.contrast = 120
    /\ filters.sepia = 0
    /\ hasChanges

\* C18: a crop that fails changes nothing but the pending request: history,
\* index, current raster, live adjustments, rotation, flip, crop rectangle
\* and mode stay as they are; and every step that changes the history or the
\* index leaves the current raster and the live adjustments equal to those of
\* the entry now current.
C18_FailedCropChangesNothing ==
    [][ /\ \A i \in DOMAIN cropReqs :
             CropFail(i) =>
               UNCHANGED <<history, historyIndex, imageSrc, filters,
                           lastAppliedFilters, rotation, flip, crop,
                           completedCrop, mode, canvas>>
        /\ (history' # history \/ historyIndex' # historyIndex) =>
             /\ historyIndex' \in 0..(Len(history') - 1)
             /\ imageSrc' = At(history', historyIndex').src
             /\ filters' = At(history', historyIndex').filters
      ]_vars

\* C18 witness: a crop requested with a rectangle and rotation 90 has failed:
\* no request is pending and crop mode is as it was
C18_Witness ==
    /\ cropReqs = << >>
    /\ mode = "crop"
    /\ rotation = 90
    /\ completedCrop = "rect"
    /\ history = << [src |-> InitialImage, filters |-> DEFAULT_FILTERS] >>
    /\ events = 4

\* C14: every export (the download of the Save dialog, the download of the
\* compress panel) made while the live adjustments are not the defaults
\* delivers the raster with the filter list of the live adjustments baked in.
C14_ExportBakesAdjustments ==
    [][ ( /\ performDownload \/ handleDownloadCompressed
          /\ download' # download
          /\ filters # DEFAULT_FILTERS ) =>
             download'.filter = getFilterString(filters)
      ]_vars

\* the rectangle of a crop call reaches outside the bounding box of the
\* rotated raster
OutsideBox(c) ==
    LET box == rotateSize(c.img.width, c.img.height, c.rot)
    IN \/ c.pixelCrop.x < 0
       \/ c.pixelCrop.y < 0
       \/ c.pixelCrop.x + c.pixelCrop.width > box.width
       \/ c.pixelCrop.y + c.pixelCrop.height > box.height

\* C12: a crop whose rectangle lies partly or wholly outside the rotated
\* bounding box ends in an error or an empty result; it never returns a
\* raster.
C12_OutOfBoundsCropFails ==
    ( /\ call.kind = "crop"
      /\ result # NoResult
      /\ ~IsNull(call.pixelCrop)
      /\ OutsideBox(call) ) => result.status # "returned"

\* the crop call asks for the whole raster, unrotated and unflipped
IdentityCrop(c) ==
    /\ ~IsNull(c.pixelCrop)
    /\ c.pixelCrop = [x |-> 0, y |-> 0, width |-> c.img.width,
                      height |-> c.img.height]
    /\ c.rot = 0
    /\ c.flp = NoFlip

\* C19: an identity crop (rectangle {0, 0, w, h} on a w x h raster, no
\* rotation, no flip) returns a raster of the same dimensions with every
\* pixel equal to the input's, whichever crop function computes it.
C19_IdentityCropIsIdentity ==
    ( /\ call.kind = "crop"
      /\ result # NoResult
      /\ call.hasContext
      /\ IdentityCrop(call) ) =>
           /\ result.status = "returned"
           /\ result.image = call.img

\* the CSS functions of the seven channels, in the fixed order brightness,
\* contrast, saturation, sepia, grayscale, blur, hueRotate
ChannelOrder ==
    <<"brightness", "contrast", "saturate", "sepia", "grayscale", "blur",
      "hue-rotate">>

\* C20: every composer of a filter descriptor lists the seven channels
\* exactly once, in the fixed order, whatever the parameter values.
C20_DescriptorHasSevenChannelsInOrder ==
    ( /\ call.kind \in {"filters", "adjustment", "preset"}
      /\ result # NoResult ) =>
           [i \in DOMAIN result.descriptor |-> result.descriptor[i][1]]
               = ChannelOrder

\* C17: commitChanges with a canvas appends exactly one entry, the flattened
\* composite of the current raster, the live adjustments and the lines, and
\* makes it current; the live adjustments are the defaults and no line is
\* left.  Without a canvas it changes nothing.
C17_CommitChangesBakes ==
    [][ Editor_commitChanges =>
          IF editor.hasCanvas
          THEN /\ editor'.history =
                     Append(Slice(editor.history, editor.historyIndex),
                            Canvas_composite(editor))
               /\ editor'.historyIndex = Len(editor'.history) - 1
               /\ editor'.adjustments = defaultAdjustments
               /\ editor'.lines = << >>
               /\ editor'.activeTab = editor.activeTab
          ELSE [editor' EXCEPT !.events = editor.events] = editor ]_vars

\* adjustments and a stroke have been flattened into the current entry, past
\* an older entry
C17_Witness ==
    /\ editor # NotMounted
    /\ editor.historyIndex > 0
    /\ editor.historyIndex = Len(editor.history) - 1
    /\ LET top == At(editor.history, editor.historyIndex)
       IN /\ top[Len(top)].op = "composite"
          /\ top[Len(top)].adjustments # defaultAdjustments
          /\ top[Len(top)].lines # << >>
    /\ editor.adjustments = defaultAdjustments
    /\ editor.lines = << >>

\* C21: spotFix called with a radius of 0 or less returns normally and
\* leaves every pixel of the canvas as it was.
C21_SpotFixNonPositiveRadius ==
    ( /\ call.kind = "retouch"
      /\ result # NoResult
      /\ result.fn = "spotFix"
      /\ call.radius <= 0 ) =>
           /\ result.status = "returned"
           /\ result.canvas = call.canvas

\* the positions of cv that the disc covers wholly / not at all
InsideDisc(cv, c) ==
    { pos \in DOMAIN cv.px : Coverage(pos, c.x, c.y, c.radius) = "in" }

OutsideDisc(cv, c) ==
    { pos \in DOMAIN cv.px : Coverage(pos, c.x, c.y, c.radius) = "out" }

\* the mean of channel ch over the 5 x 5 neighbourhood of pos, the
\* neighbours outside the raster left out of sum and count
MeanOver(cv, pos, ch) ==
    LET nb == Neighbours(DOMAIN cv.px, pos)
    IN RoundHalfEven(SumChannel(cv.px, nb, ch), Cardinality(nb))

\* C22: after spotFix every pixel inside the disc has each of R, G, B equal
\* to the mean of that channel over its 5 x 5 neighbourhood in the raster
\* before the call, only the neighbours outside the raster being left out;
\* the pixels outside the disc are as before.
C22_SpotFixMeansOverNeighbourhood ==
    ( /\ call.kind = "retouch"
      /\ result # NoResult
      /\ result.fn = "spotFix"
      /\ call.radius > 0
      /\ call.hasContext /\ call.hasTempContext ) =>
           /\ result.status = "returned"
           /\ \A pos \in InsideDisc(call.canvas, call) :
                 /\ result.canvas.px[pos].r = MeanOver(call.canvas, pos, "r")
                 /\ result.canvas.px[pos].g = MeanOver(call.canvas, pos, "g")
                 /\ result.canvas.px[pos].b = MeanOver(call.canvas, pos, "b")
           /\ \A pos \in OutsideDisc(call.canvas, call) :
                 result.canvas.px[pos] = call.canvas.px[pos]

\* C23: after removeRedEye every pixel inside the disc with R > G + B and
\* R > 50 has R, G and B equal to the average of its old G and B and its
\* alpha as before; every other pixel inside the disc, and every pixel
\* outside it, is unchanged.
C23_RedEyeDesaturates ==
    ( /\ call.kind = "retouch"
      /\ result # NoResult
      /\ result.fn = "removeRedEye"
      /\ call.radius > 0
      /\ call.hasContext /\ call.hasTempContext ) =>
           /\ result.status = "returned"
           /\ \A pos \in InsideDisc(call.canvas, call) :
                 LET old == call.canvas.px[pos]
                     avg == RoundHalfEven(old.g + old.b, 2)
                 IN result.canvas.px[pos] =
                       IF old.r > old.g + old.b /\ old.r > 50
                       THEN [r |-> avg, g |-> avg, b |-> avg, a |-> old.a]
                       ELSE old
           /\ \A pos \in OutsideDisc(call.canvas, call) :
                 result.canvas.px[pos] = call.canvas.px[pos]

\* the disc of the call reaches past an edge of the raster
DiscCrossesEdge(c) ==
    \/ c.x - c.radius < 0
    \/ c.y - c.radius < 0
    \/ c.x + c.radius > c.canvas.width
    \/ c.y + c.radius > c.canvas.height

\* C24: a spot fix or red-eye removal whose disc reaches past an edge of the
\* raster still gives every pixel of the raster inside the disc the value
\* the operator gives away from the edge (the mean over the neighbours in
\* the raster; the desaturated colour), leaves the pixels outside the disc
\* alone, and the raster keeps its size.
C24_RegionClippedToRaster ==
    ( /\ call.kind = "retouch"
      /\ result # NoResult
      /\ call.radius > 0
      /\ call.hasContext /\ call.hasTempContext
      /\ DiscCrossesEdge(call) ) =>
           /\ result.status = "returned"
           /\ DOMAIN result.canvas.px = DOMAIN call.canvas.px
           /\ \A pos \in InsideDisc(call.canvas, call) :
                 result.canvas.px[pos] =
                    IF result.fn = "removeRedEye"
                    THEN Desaturated(call.canvas.px[pos])
                    ELSE [r |-> MeanOver(call.canvas, pos, "r"),
                          g |-> MeanOver(call.canvas, pos, "g"),
                          b |-> MeanOver(call.canvas, pos, "b"),
                          a |-> call.canvas.px[pos].a]
           /\ \A pos \in OutsideDisc(call.canvas, call) :
                 result.canvas.px[pos] = call.canvas.px[pos]

\* the pixel p is nearer to the target colour of the call than its tolerance
Matches(p, c) ==
    /\ c.tolerance > 0
    /\ SquaredDistance(p, c.targetColor) < c.tolerance * c.tolerance

\* the canvas a removeColorRange step works on
KeyedCanvas == IF result = NoResult THEN call.canvas ELSE result.canvas

\* C25 as stated: removeColorRange sets the alpha of a pixel to 0 exactly
\* when its RGB distance to the target colour is strictly less than the
\* tolerance; R, G and B of every pixel and the alpha of the other pixels
\* are unchanged; a second application changes nothing.
C25_ChromaKeyKeepsColours ==
    [][ (removeColorRange /\ call.hasContext) =>
          /\ \A pos \in DOMAIN KeyedCanvas.px :
                LET old == KeyedCanvas.px[pos]
                    new == result'.canvas.px[pos]
                IN IF Matches(old, call)
                   THEN new = [old EXCEPT !.a = 0]
                   ELSE new = old
          /\ result # NoResult => result'.canvas = result.canvas ]_vars

\* C25 amended: removeColorRange sets the alpha of a pixel to 0 exactly when
\* its RGB distance to the target colour is strictly less than the
\* tolerance; every other pixel keeps its R, G, B and alpha; a second
\* application changes nothing.  (The colour of a pixel made transparent is
\* not kept.)
C25_ChromaKey ==
    [][ (removeColorRange /\ call.hasContext) =>
          /\ \A pos \in DOMAIN KeyedCanvas.px :
                LET old == KeyedCanvas.px[pos]
                    new == result'.canvas.px[pos]
                IN IF Matches(old, call)
                   THEN new.a = 0
                   ELSE new = old
          /\ result # NoResult => result'.canvas = result.canvas ]_vars

\* a canvas keyed twice: one pixel at the tolerance's distance kept, one
\* nearer made transparent
C25_Witness ==
    /\ call.kind = "chroma"
    /\ result # NoResult
    /\ result.applied = 2
    /\ call.hasContext
    /\ call.tolerance = 5
    /\ \E pos \in DOMAIN call.canvas.px :
          /\ SquaredDistance(call.canvas.px[pos], call.targetColor) = 25
          /\ result.canvas.px[pos].a = 255
    /\ \E pos \in DOMAIN call.canvas.px :
          /\ call.canvas.px[pos].a = 255
          /\ result.canvas.px[pos].a = 0

\* C26: in every reachable state of the session the current base raster,
\* imageSrc, is the raster of the history entry at the current index.
C26_ImageSrcIsCurrentEntry ==
    imageSrc = At(history, historyIndex).src

\* after commits and an undo the current entry is neither the first nor the
\* last, and holds an edited raster
C26_Witness ==
    /\ Len(history) >= 3
    /\ historyIndex > 0
    /\ historyIndex < Len(history) - 1
    /\ imageSrc # InitialImage
    /\ imageSrc = At(history, historyIndex).src

\* C27: no step removes or alters a history entry at or before the current
\* index; in particular the commit of a crop or background-removal result
\* keeps every entry up to the index that is current when it is committed,
\* whatever happened while the operation was awaited.
C27_AsyncCommitKeepsEntries ==
    [][ /\ Len(history') >= historyIndex + 1
        /\ SubSeq(history', 1, historyIndex + 1) = Slice(history, historyIndex)
      ]_vars

\* C28: a pointer press or release on the canvas changes the history or the
\* index only when the mode is draw or repair; in every other mode it leaves
\* both as they are.
C28_PointerCommitsOnlyInDrawOrRepair ==
    [][ ( /\ startInteraction \/ endInteraction
          /\ mode \notin {"draw", "repair"} ) =>
             UNCHANGED <<history, historyIndex>> ]_vars

\* the entry of the Editor that is current
currentImageSrc(e) == At(e.history, e.historyIndex)

\* C29: undo and redo never add, remove or alter a history entry, in the
\* session and in the Editor; one of them moves the index by one, and undo
\* followed at once by redo, or redo by undo, gives back the index and the
\* current raster the navigation started from.
C29_UndoRedoRoundTrip ==
    /\ history = call.history
    /\ imageSrc = At(history, historyIndex).src
    /\ events = 1 => historyIndex \in {call.historyIndex - 1, call.historyIndex + 1}
    /\ events = 2 =>
         \/ historyIndex = call.historyIndex /\ imageSrc = call.imageSrc
         \/ historyIndex \in {call.historyIndex - 2, call.historyIndex + 2}
    /\ editor.history = call.editor.history
    /\ editor.events = 1 =>
         editor.historyIndex \in {call.editor.historyIndex - 1,
                                  call.editor.historyIndex + 1}
    /\ editor.events = 2 =>
         \/ /\ editor.historyIndex = call.editor.historyIndex
            /\ currentImageSrc(editor) = currentImageSrc(call.editor)
         \/ editor.historyIndex \in {call.editor.historyIndex - 2,
                                     call.editor.historyIndex + 2}

\* undo then redo from the last of three entries, in the session and in the
\* Editor
C29_Witness ==
    /\ call.kind = "navigation"
    /\ Len(history) = 3
    /\ call.historyIndex = 2
    /\ events = 2
    /\ historyIndex = 2
    /\ imageSrc = 2
    /\ Len(editor.history) = 3
    /\ call.editor.historyIndex = 2
    /\ editor.events = 2
    /\ editor.historyIndex = 2

\* the file of the last download, as an encoding
DeliveredBlob(d) == [pixels |-> d.src, format |-> d.format, quality |-> d.quality]

\* C30: the file a click on Download delivers in Compress mode is the
\* encoding of the current raster under the format and quality selected at
\* the click, and its extension is that of the format of its bytes.
C30_CompressDownloadIsCurrent ==
    [][ (handleDownloadCompressed /\ events' # events) =>
          /\ DeliveredBlob(download') =
                toBlob(imageSrc, compressSettings.format, compressSettings.quality)
          /\ download'.ext = Extension(download'.format) ]_vars

====
